---- MODULE Spec2Model ----
(***************************************************************************)
(* Model of SynologyClient (src/src/common/apis/synology/client.ts): the   *)
(* cached login promise, the settings version used as a fencing token, the *)
(* authenticated call proxy with its retry policy, Auth.Login, Auth.Logout *)
(* and updateSettings.  Every `await` of the source is a point where other *)
(* tasks may run; each action below is one synchronous run of a task from  *)
(* one such point to the next.                                             *)
(***************************************************************************)
EXTENDS Integers, Sequences, FiniteSets, TLC

\* ---------------------------------------------------------------- bounds
\* the facade operations invoked (proxied calls, Auth.Login, Auth.Logout,
\* updateSettings) plus the login promises created in one behaviour
MaxWork == 5
\* the calls of onSettingsChange in one behaviour
MaxSubscriptions == 2
\* the download tasks in the stored state
MaxTasks == 2

\* ------------------------------------------------------ program constants
NO_SUCH_METHOD_ERROR_CODE == 103
NO_PERMISSIONS_ERROR_CODE == 105
SESSION_TIMEOUT_ERROR_CODE == 106
\* a failure code with no special meaning to the client
OTHER_ERROR_CODE == 400

AUTH_API_NAME == "SYNO.API.Auth"
TASK_API_NAME == "SYNO.DownloadStation.Task"
INFO_API_NAME == "SYNO.API.Info"

SETTING_NAME_KEYS == {"baseUrl", "account", "passwd", "session"}

\* ------------------------------------------------------------ value space
\* the value of a key that a Partial<SynologyClientSettings> leaves out
Undefined == "undefined"
NoPromise == 0

\* the settings object handed to the constructor
InitialSettings == [baseUrl |-> "h1", account |-> "a", passwd |-> "p", session |-> "S"]

\* the settings objects handed to updateSettings: the stored ones again, another
\* host, and an empty password
SettingsSpace ==
  {InitialSettings,
   [InitialSettings EXCEPT !.baseUrl = "h2"],
   [InitialSettings EXCEPT !.passwd = ""]}

\* a wider choice, in which each key takes another value, is empty or is missing
WideSettingsSpace ==
  SettingsSpace \cup
  {[InitialSettings EXCEPT !.account = "b"],
   [InitialSettings EXCEPT !.session = "T"],
   [InitialSettings EXCEPT !.account = Undefined],
   [InitialSettings EXCEPT !.baseUrl = "h2", !.passwd = ""]}

\* the settings objects handed to the constructor: complete ones, and ones that
\* leave a key out
ConstructorSettings == {InitialSettings, [InitialSettings EXCEPT !.account = Undefined]}

\* kinds of error a transport function throws
ErrorKinds == {"BadResponseError400", "BadResponseErrorOther", "NetworkError",
               "TimeoutError", "OtherError"}
\* the errors the modelled transport throws in the behaviours explored
ThrownErrors == {"NetworkError"}

\* a value of ClientRequestResult, RestApiResponse or "not-logged-in"
Result(kind, sid, code, apiGroup, type, error) ==
  [kind |-> kind, sid |-> sid, code |-> code, apiGroup |-> apiGroup,
   type |-> type, error |-> error]

NoResult == Result("none", 0, 0, "", "", "")
Success(sid) == Result("success", sid, 0, "", "", "")
Failure(code) == Result("failure", 0, code, "", "", "")
MissingConfig == Result("connfail", 0, 0, "", "missing-config", "")
NotLoggedIn == Result("not-logged-in", 0, 0, "", "", "")

\* what a transport function does with one request: respond or throw
RespOk == [t |-> "ok", code |-> 0, error |-> ""]
RespFail(code) == [t |-> "fail", code |-> code, error |-> ""]
RespThrow(e) == [t |-> "throw", code |-> 0, error |-> e]

LoginResponses ==
  {RespOk, RespFail(NO_SUCH_METHOD_ERROR_CODE)} \cup {RespThrow(e) : e \in ThrownErrors}
\* the same, and an API failure with a code of no special meaning
WideLoginResponses == LoginResponses \cup {RespFail(OTHER_ERROR_CODE)}
EndpointResponses ==
  {RespOk, RespFail(NO_PERMISSIONS_ERROR_CODE), RespFail(SESSION_TIMEOUT_ERROR_CODE),
   RespFail(OTHER_ERROR_CODE)} \cup {RespThrow(e) : e \in ThrownErrors}
LogoutResponses == {RespOk, RespFail(OTHER_ERROR_CODE)} \cup {RespThrow(e) : e \in ThrownErrors}
\* a transport function that answers, or throws an error of any kind
ErrorResponses == {RespOk} \cup {RespThrow(e) : e \in ErrorKinds}

\* --------------------------------------------------------- pure functions
\* a catch handler that throws the error on instead of classifying it
ConnectionFailureRethrown(error) == Result("rejected", 0, 0, "", "", error)

\* a classifier that tests `instanceof BadResponseError` and forgets the status
ConnectionFailureAnyBadResponse(error) ==
  IF error \in {"BadResponseError400", "BadResponseErrorOther"}
    THEN Result("connfail", 0, 0, "", "probable-wrong-protocol", error)
  ELSE IF error = "NetworkError"
    THEN Result("connfail", 0, 0, "", "probable-wrong-url-or-no-connection-or-cert-error", error)
  ELSE IF error = "TimeoutError"
    THEN Result("connfail", 0, 0, "", "timeout", error)
  ELSE Result("connfail", 0, 0, "", "unknown", error)

ConnectionFailureFrom(error) ==
  IF error = "BadResponseError400"
    THEN Result("connfail", 0, 0, "", "probable-wrong-protocol", error)
  ELSE IF error = "NetworkError"
    THEN Result("connfail", 0, 0, "", "probable-wrong-url-or-no-connection-or-cert-error", error)
  ELSE IF error = "TimeoutError"
    THEN Result("connfail", 0, 0, "", "timeout", error)
  ELSE Result("connfail", 0, 0, "", "unknown", error)

ClientRequestResultFrom(response, apiGroup) ==
  IF response.kind = "success" THEN response ELSE [response EXCEPT !.apiGroup = apiGroup]

isConnectionFailure(result) == result.kind = "connfail"

\* the RestApiResponse a transport function returns for a response that is not a throw
RawResponse(resp, sid) == IF resp.t = "ok" THEN Success(sid) ELSE Failure(resp.code)

\* an updateSettings that compares the base URL alone
SettingsDifferInBaseUrl(new, old) == new.baseUrl # old.baseUrl

\* an updateSettings that takes every call for a change
SettingsDifferAlways(new, old) == TRUE

SettingsDiffer(new, old) == \E k \in SETTING_NAME_KEYS : new[k] # old[k]

\* the `undefined` returned by getValidatedSettings
UndefinedSettings ==
  [baseUrl |-> Undefined, account |-> Undefined, passwd |-> Undefined, session |-> Undefined]

\* a getValidatedSettings that tests `v != null` and forgets `v.length > 0`
getValidatedSettingsNonNull(s) ==
  IF \A k \in SETTING_NAME_KEYS : s[k] # Undefined THEN s ELSE UndefinedSettings

getValidatedSettings(s) ==
  IF \A k \in SETTING_NAME_KEYS : s[k] # Undefined /\ s[k] # "" THEN s ELSE UndefinedSettings

\* ------------------------------------------------------------------ state
VARIABLES
  settings,         \* this.settings
  settingsVersion,  \* this.settingsVersion
  loginPromise,     \* this.loginPromise: NoPromise or the index of a login in promises
  promises,         \* every login promise created so far, in creation order
  tasks,            \* the facade operations that have not returned yet, in invocation order
  lastReturn,       \* the facade operation that returned last, as it was when it returned
  started,          \* the number of facade operations invoked so far
  onSettingsChangeListeners,  \* this.onSettingsChangeListeners
  subscriptions,    \* the closures returned by onSettingsChange, in creation order
  listenerCalls,    \* how often each listener function has been called
  props,            \* the props the Popup component was rendered with last
  body              \* what Popup.renderBody returned for them

vars == <<settings, settingsVersion, loginPromise, promises, tasks, lastReturn, started,
          onSettingsChangeListeners, subscriptions, listenerCalls, props, body>>

listenerVars == <<onSettingsChangeListeners, subscriptions, listenerCalls>>

popupVars == <<props, body>>

\* the listener functions callers subscribe
Listeners == {"l1", "l2"}

\* ------------------------------------------------------------- the popup
\* the names of the visibility filters
FilterNames == {"downloading", "uploading", "completed", "errored", "other"}

\* the titles of download tasks, each named by its rank in the order sortBy uses
Titles == 1..2

\* a download task: its title and the filter names matchesFilter accepts for it
TaskSpace == [title : Titles, matches : {{"downloading"}, {"completed"}, {"other"}}]

\* the task lists of the stored state
TaskLists == UNION {[1..n -> TaskSpace] : n \in 0..MaxTasks}

\* the visibleTasks settings of the stored state: every filter enabled, one,
\* two, none
VisibleTasksSpace ==
  {[f \in FilterNames |-> f \in enabled] :
     enabled \in {FilterNames, {"downloading"}, {"completed", "errored"}, {}}}

\* tasksLastCompletedFetchTimestamp == null
NoTimestamp == 0

\* the props of the Popup component: before the first completed fetch
NoProps ==
  [tasks |-> <<>>, tasksLastCompletedFetchTimestamp |-> NoTimestamp,
   taskFilter |-> [f \in FilterNames |-> TRUE]]

\* what renderBody returns: the class of the element, its message and the
\* tasks of its Task children in order
Body(className, message, list) == [className |-> className, message |-> message, list |-> list]

\* nothing has been rendered yet
NotRendered == Body("", "", <<>>)

\* matchesFilter(t, filterName) of ./filtering
matchesFilter(t, filterName) == filterName \in t.matches

\* lodash sortBy(list, t => t.title): a stable sort, ascending by title
RECURSIVE sortBy(_)
sortBy(list) ==
  IF list = <<>> THEN <<>>
  ELSE LET t == list[Len(list)]
           sorted == sortBy(SubSeq(list, 1, Len(list) - 1))
           k == Cardinality({i \in 1..Len(sorted) : sorted[i].title <= t.title})
       IN SubSeq(sorted, 1, k) \o <<t>> \o SubSeq(sorted, k + 1, Len(sorted))

\* the tasks the filter of renderBody keeps
filteredTasks(p) ==
  LET Keep(t) ==
        \/ p.taskFilter["downloading"] /\ matchesFilter(t, "downloading")
        \/ p.taskFilter["uploading"] /\ matchesFilter(t, "uploading")
        \/ p.taskFilter["completed"] /\ matchesFilter(t, "completed")
        \/ p.taskFilter["errored"] /\ matchesFilter(t, "errored")
        \/ p.taskFilter["other"] /\ matchesFilter(t, "other")
  IN SelectSeq(p.tasks, Keep)

\* Popup.renderBody with p as this.props
renderBody(p) ==
  IF p.tasksLastCompletedFetchTimestamp = NoTimestamp
    THEN Body("no-tasks", "...", <<>>)
  ELSE IF Len(p.tasks) = 0
    THEN Body("no-tasks", "No download tasks.", <<>>)
  ELSE IF Len(filteredTasks(p)) = 0
    THEN Body("no-tasks", "Download tasks exist, but none match your filters.", <<>>)
  ELSE Body("download-tasks", "", sortBy(p.tasks))

\* One facade operation.  type is "call" (a proxied authenticated method),
\* "query" (Info.Query, proxied without authentication), "login" (Auth.Login),
\* "logout" (Auth.Logout) or "update" (updateSettings and the maybeLogout it
\* starts).  versionAtInit, shouldRetry, awaited and sid are
\* the locals of the running function; settings is this.settings as seen when
\* maybeLogout was entered (for "update": the argument); ret is the value
\* updateSettings returned.  invocations, retries, restarts, okResponses,
\* firstResp and lastResp record what a call has done: how often it invoked the
\* endpoint function, took the invalidate-and-retry step, restarted after a
\* settings change and got a success response, and its first and its latest
\* endpoint response; trace lists its endpoint responses, invalidate-and-retry
\* steps ("retry") and restarts after a settings change ("restart") in order.
\* endVersion is the settings version at the moment the operation returned.
Task(type) ==
  [type |-> type, pc |-> "done", versionAtInit |-> 0, shouldRetry |-> TRUE,
   awaited |-> NoPromise, sid |-> 0, settings |-> UndefinedSettings, ret |-> FALSE,
   result |-> NoResult, endVersion |-> 0,
   invocations |-> 0, retries |-> 0, restarts |-> 0, okResponses |-> 0, firstResp |-> "",
   lastResp |-> "", trace |-> <<>>]

RemoveAt(seq, i) == SubSeq(seq, 1, i - 1) \o SubSeq(seq, i + 1, Len(seq))

\* operation i returns: it leaves tasks and is remembered as lastReturn
Finish(i, t) ==
  /\ tasks' = RemoveAt(tasks, i)
  /\ lastReturn' = [t EXCEPT !.pc = "done", !.endVersion = settingsVersion]

\* an operation that returns in the step that invokes it
FinishAtOnce(t, version) ==
  /\ tasks' = tasks
  /\ lastReturn' = [t EXCEPT !.pc = "done", !.endVersion = version]

\* an operation that is invoked and suspends at an await
Suspend(t) ==
  /\ tasks' = Append(tasks, t)
  /\ lastReturn' = lastReturn

TaskIds == 1..Len(tasks)
Calls == {i \in TaskIds : tasks[i].type = "call"}
Logins == {i \in TaskIds : tasks[i].type = "login"}
Logouts == {i \in TaskIds : tasks[i].type \in {"logout", "update"}}
Updates == {i \in TaskIds : tasks[i].type = "update"}

\* the name a history field gives to an endpoint response
RespName(resp) ==
  IF resp.t = "ok" THEN "ok"
  ELSE IF resp.t = "throw" THEN "throw"
  ELSE IF resp.code = NO_PERMISSIONS_ERROR_CODE THEN "105"
  ELSE IF resp.code = SESSION_TIMEOUT_ERROR_CODE THEN "106"
  ELSE "other"

Init ==
  /\ settings = InitialSettings
  /\ settingsVersion = 0
  /\ loginPromise = NoPromise
  /\ promises = <<>>
  /\ tasks = <<>>
  /\ lastReturn = Task("none")
  /\ started = 0
  /\ onSettingsChangeListeners = <<>>
  /\ subscriptions = <<>>
  /\ listenerCalls = [l \in Listeners |-> 0]
  /\ props = NoProps
  /\ body = NotRendered

\* ------------------------------------------------------------- maybeLogin
\* maybeLogin runs synchronously up to its return; lp is this.loginPromise on entry.
\* A login promise records the settings it was issued under, how far its
\* request chain (version 2, then possibly version 3) has got, and whether
\* this.loginPromise has been overwritten while it held this promise (dropped).
NewLogin ==
  [ver |-> settingsVersion, settings |-> settings, stage |-> "v2", result |-> NoResult,
   dropped |-> FALSE]

\* `this.loginPromise = undefined`, seen from the promises
Dropped(ps, lp) == IF lp = NoPromise THEN ps ELSE [ps EXCEPT ![lp].dropped = TRUE]

\* a maybeLogin that forgets the test `!this.loginPromise`
LoginCreatedAlways(lp) == getValidatedSettings(settings) # UndefinedSettings

\* whether maybeLogin sends a login request: settings valid and nothing cached
LoginCreated(lp) == getValidatedSettings(settings) # UndefinedSettings /\ lp = NoPromise

\* this.loginPromise after maybeLogin
maybeLoginPromise(lp) == IF LoginCreated(lp) THEN Len(promises) + 1 ELSE lp

maybeLoginPromises(lp, ps) == IF LoginCreated(lp) THEN Append(ps, NewLogin) ELSE ps

\* what the caller of maybeLogin awaits: NoPromise stands for the already
\* resolved missing-config failure, otherwise the shared login promise
maybeLogin(lp) ==
  IF getValidatedSettings(settings) = UndefinedSettings THEN NoPromise ELSE maybeLoginPromise(lp)

\* what has been spent of MaxWork, and whether n operations and a maybeLogin
\* entered with lp as this.loginPromise still fit
Work == started + Len(promises)
Fits(n, lp) == Work + n + (IF LoginCreated(lp) THEN 1 ELSE 0) <= MaxWork

Settled(a) == IF a = NoPromise THEN TRUE ELSE promises[a].stage = "resolved"
LoginResultOf(a) == IF a = NoPromise THEN MissingConfig ELSE promises[a].result

\* a login chain that never falls back to version 3
LoginNeverNeedsV3(resp) == FALSE

\* a login chain that falls back to version 3 on every API failure
LoginNeedsV3OnAnyFailure(resp) == resp.t = "fail"

\* the test of the first .then: the version-2 response says "no such method"
LoginNeedsV3(resp) == resp.t = "fail" /\ resp.code = NO_SUCH_METHOD_ERROR_CODE

\* Auth.Login(baseUrl, {version: 2}) answers or throws
LoginRespondV2(p, resp) ==
  /\ p \in 1..Len(promises)
  /\ promises[p].stage = "v2"
  /\ promises' = [promises EXCEPT ![p] =
       IF resp.t = "throw"
         THEN [@ EXCEPT !.stage = "resolved", !.result = ConnectionFailureFrom(resp.error)]
       ELSE IF LoginNeedsV3(resp)
         THEN [@ EXCEPT !.stage = "v3"]
       ELSE [@ EXCEPT !.stage = "resolved",
                      !.result = ClientRequestResultFrom(RawResponse(resp, p), AUTH_API_NAME)]]
  /\ UNCHANGED <<settings, settingsVersion, loginPromise, tasks, lastReturn, started>>
  /\ UNCHANGED listenerVars
  /\ UNCHANGED popupVars

\* Auth.Login(baseUrl, {version: 3}) answers or throws
LoginRespondV3(p, resp) ==
  /\ p \in 1..Len(promises)
  /\ promises[p].stage = "v3"
  /\ promises' = [promises EXCEPT ![p] =
       IF resp.t = "throw"
         THEN [@ EXCEPT !.stage = "resolved", !.result = ConnectionFailureFrom(resp.error)]
       ELSE [@ EXCEPT !.stage = "resolved",
                      !.result = ClientRequestResultFrom(RawResponse(resp, p), AUTH_API_NAME)]]
  /\ UNCHANGED <<settings, settingsVersion, loginPromise, tasks, lastReturn, started>>
  /\ UNCHANGED listenerVars
  /\ UNCHANGED popupVars

\* the public Auth.Login facade entry is maybeLogin itself
AuthLogin ==
  /\ Fits(1, loginPromise)
  /\ started' = started + 1
  /\ loginPromise' = maybeLoginPromise(loginPromise)
  /\ promises' = maybeLoginPromises(loginPromise, promises)
  /\ Suspend([Task("login") EXCEPT !.pc = "awaitLogin", !.awaited = maybeLogin(loginPromise)])
  /\ UNCHANGED <<settings, settingsVersion>>
  /\ UNCHANGED listenerVars
  /\ UNCHANGED popupVars

\* the caller of Auth.Login resumes from awaiting it
AuthLoginDone(l) ==
  /\ l \in Logins
  /\ tasks[l].pc = "awaitLogin"
  /\ Settled(tasks[l].awaited)
  /\ Finish(l, [tasks[l] EXCEPT !.result = LoginResultOf(tasks[l].awaited)])
  /\ UNCHANGED <<settings, settingsVersion, loginPromise, promises, started>>
  /\ UNCHANGED listenerVars
  /\ UNCHANGED popupVars

\* ------------------------------------------------------------ maybeLogout
\* The synchronous part of maybeLogout (up to its first await, or its return),
\* run with cur as this.settings: it stashes this.loginPromise, which the
\* caller clears in the same step.
\* a maybeLogout that leaves this.loginPromise as it is
maybeLogoutKeepsLogin(lp) == lp

\* this.loginPromise after the synchronous part of maybeLogout
maybeLogoutLoginPromise(lp) == NoPromise

\* a maybeLogout that tests the settings before the stashed login
maybeLogoutSettingsFirst(type, cur) ==
  [Task(type) EXCEPT
     !.awaited = loginPromise,
     !.settings = cur,
     !.pc = IF loginPromise = NoPromise \/ getValidatedSettings(cur) = UndefinedSettings
              THEN "done" ELSE "awaitLogin",
     !.result = IF getValidatedSettings(cur) = UndefinedSettings THEN MissingConfig
                ELSE IF loginPromise = NoPromise THEN NotLoggedIn
                ELSE NoResult]

maybeLogout(type, cur) ==
  [Task(type) EXCEPT
     !.awaited = loginPromise,
     !.settings = cur,
     !.pc = IF loginPromise = NoPromise \/ getValidatedSettings(cur) = UndefinedSettings
              THEN "done" ELSE "awaitLogin",
     !.result = IF loginPromise = NoPromise THEN NotLoggedIn
                ELSE IF getValidatedSettings(cur) = UndefinedSettings THEN MissingConfig
                ELSE NoResult]

\* the public Auth.Logout facade entry is maybeLogout itself
AuthLogout ==
  /\ Work < MaxWork
  /\ started' = started + 1
  /\ IF maybeLogout("logout", settings).pc = "done"
       THEN FinishAtOnce(maybeLogout("logout", settings), settingsVersion)
       ELSE Suspend(maybeLogout("logout", settings))
  /\ loginPromise' = maybeLogoutLoginPromise(loginPromise)
  /\ promises' = Dropped(promises, loginPromise)
  /\ UNCHANGED <<settings, settingsVersion>>
  /\ UNCHANGED listenerVars
  /\ UNCHANGED popupVars

\* a maybeLogout that sends the logout request whatever the login resolved to
LogoutAfterLoginAlways(i) ==
  /\ i \in Logouts
  /\ tasks[i].pc = "awaitLogin"
  /\ Settled(tasks[i].awaited)
  /\ tasks' = [tasks EXCEPT ![i] = [@ EXCEPT !.pc = "awaitLogout",
                                               !.sid = LoginResultOf(tasks[i].awaited).sid]]
  /\ UNCHANGED <<settings, settingsVersion, loginPromise, promises, started, lastReturn>>
  /\ UNCHANGED listenerVars
  /\ UNCHANGED popupVars

\* maybeLogout resumes from `await stashedLoginPromise`
LogoutAfterLogin(i) ==
  /\ i \in Logouts
  /\ tasks[i].pc = "awaitLogin"
  /\ Settled(tasks[i].awaited)
  /\ LET response == LoginResultOf(tasks[i].awaited) IN
       IF isConnectionFailure(response) THEN Finish(i, [tasks[i] EXCEPT !.result = response])
       ELSE IF response.kind = "success"
         THEN /\ tasks' = [tasks EXCEPT ![i] = [@ EXCEPT !.pc = "awaitLogout",
                                                          !.sid = response.sid]]
              /\ UNCHANGED lastReturn
       ELSE Finish(i, [tasks[i] EXCEPT !.result = response])
  /\ UNCHANGED <<settings, settingsVersion, loginPromise, promises, started>>
  /\ UNCHANGED listenerVars
  /\ UNCHANGED popupVars

\* Auth.Logout(baseUrl, {sid, session}) answers or throws
LogoutRespond(i, resp) ==
  /\ i \in Logouts
  /\ tasks[i].pc = "awaitLogout"
  /\ Finish(i, [tasks[i] EXCEPT !.result =
       IF resp.t = "throw" THEN ConnectionFailureFrom(resp.error)
       ELSE ClientRequestResultFrom(RawResponse(resp, 0), AUTH_API_NAME)])
  /\ UNCHANGED <<settings, settingsVersion, loginPromise, promises, started>>
  /\ UNCHANGED listenerVars
  /\ UNCHANGED popupVars

\* --------------------------------------------------------- updateSettings
updateSettings(s) ==
  /\ Work < MaxWork
  /\ started' = started + 1
  /\ IF SettingsDiffer(s, settings)
       THEN /\ settingsVersion' = settingsVersion + 1
            /\ settings' = s
            /\ IF maybeLogout("update", s).pc = "done"
                 THEN FinishAtOnce([maybeLogout("update", s) EXCEPT !.ret = TRUE],
                                   settingsVersion + 1)
                 ELSE Suspend([maybeLogout("update", s) EXCEPT !.ret = TRUE])
            /\ loginPromise' = maybeLogoutLoginPromise(loginPromise)
            /\ promises' = Dropped(promises, loginPromise)
       ELSE /\ FinishAtOnce([Task("update") EXCEPT !.settings = s, !.ret = FALSE],
                            settingsVersion)
            /\ UNCHANGED <<settingsVersion, settings, loginPromise, promises>>
  \* no branch of updateSettings reads this.onSettingsChangeListeners
  /\ UNCHANGED listenerVars
  /\ UNCHANGED popupVars

\* ------------------------------------------------- proxy: wrappedFunction
\* a proxy that never compares this.settingsVersion with versionAtInit
VersionNeverChanged(c) == FALSE

\* a proxy that restarts whatever the version is
VersionAlwaysChanged(c) == TRUE

VersionChanged(c) == settingsVersion # tasks[c].versionAtInit

\* a maybeLogoutAndRetry that does not look at shouldRetryRoutineFailures
ShouldRetryIgnoringFlag(shouldRetryRoutineFailures, result) ==
  \/ isConnectionFailure(result)
  \/ result.code = SESSION_TIMEOUT_ERROR_CODE
  \/ result.code = NO_PERMISSIONS_ERROR_CODE

\* a maybeLogoutAndRetry that retries on every failure
ShouldRetryAnyFailure(shouldRetryRoutineFailures, result) == shouldRetryRoutineFailures

\* the condition of maybeLogoutAndRetry under which the login is dropped and the call re-run
ShouldRetry(shouldRetryRoutineFailures, result) ==
  /\ shouldRetryRoutineFailures
  /\ \/ isConnectionFailure(result)
     \/ result.code = SESSION_TIMEOUT_ERROR_CODE
     \/ result.code = NO_PERMISSIONS_ERROR_CODE

\* wrappedFunction(options, flag) from its entry to `await this.maybeLogin()`,
\* entered with lp as this.loginPromise and ps as the promises; t is the task
\* as it enters
wrappedFunction(c, flag, lp, ps, t) ==
  /\ Fits(IF c \in TaskIds THEN 0 ELSE 1, lp)
  /\ loginPromise' = maybeLoginPromise(lp)
  /\ promises' = maybeLoginPromises(lp, ps)
  /\ tasks' = [IF c \in TaskIds THEN tasks ELSE Append(tasks, t) EXCEPT ![c] =
       [t EXCEPT !.pc = "awaitLogin", !.versionAtInit = settingsVersion,
                 !.shouldRetry = flag, !.awaited = maybeLogin(lp)]]
  /\ UNCHANGED lastReturn

\* the call returns result to its caller
Return(c, result, t) ==
  /\ Finish(c, [t EXCEPT !.result = result])
  /\ UNCHANGED <<loginPromise, promises>>

maybeLogoutAndRetry(c, result, t) ==
  IF ShouldRetry(tasks[c].shouldRetry, result)
    THEN wrappedFunction(c, FALSE, NoPromise, Dropped(promises, loginPromise),
                         [t EXCEPT !.retries = @ + 1, !.trace = Append(@, "retry")])
  ELSE IF isConnectionFailure(result) THEN Return(c, result, t)
  ELSE Return(c, [result EXCEPT !.apiGroup = TASK_API_NAME], t)

\* a caller invokes a proxied facade method
CallStart ==
  /\ started' = started + 1
  /\ wrappedFunction(Len(tasks) + 1, TRUE, loginPromise, promises, Task("call"))
  /\ UNCHANGED <<settings, settingsVersion>>
  /\ UNCHANGED listenerVars
  /\ UNCHANGED popupVars

\* wrappedFunction resumes from `await this.maybeLogin()`
CallAfterLogin(c) ==
  /\ c \in Calls
  /\ tasks[c].pc = "awaitLogin"
  /\ Settled(tasks[c].awaited)
  /\ LET loginResult == LoginResultOf(tasks[c].awaited)
         t == tasks[c]
     IN IF VersionChanged(c)
          THEN wrappedFunction(c, TRUE, loginPromise, promises,
                               [t EXCEPT !.restarts = @ + 1, !.trace = Append(@, "restart")])
        ELSE IF isConnectionFailure(loginResult) \/ loginResult.kind # "success"
          THEN maybeLogoutAndRetry(c, loginResult, t)
        ELSE /\ tasks' = [tasks EXCEPT ![c] =
                  [@ EXCEPT !.pc = "awaitFn", !.sid = loginResult.sid,
                            !.invocations = @ + 1]]
             /\ UNCHANGED <<loginPromise, promises, lastReturn>>
  /\ UNCHANGED <<settings, settingsVersion, started>>
  /\ UNCHANGED listenerVars
  /\ UNCHANGED popupVars

\* the endpoint function answers or throws and wrappedFunction resumes from `await fn(...)`
CallAfterFn(c, resp) ==
  /\ c \in Calls
  /\ tasks[c].pc = "awaitFn"
  /\ LET t == [tasks[c] EXCEPT
                 !.lastResp = RespName(resp),
                 !.trace = Append(@, RespName(resp)),
                 !.firstResp = IF @ = "" THEN RespName(resp) ELSE @,
                 !.okResponses = IF resp.t = "ok" THEN @ + 1 ELSE @]
     IN IF resp.t = "throw"
          THEN Return(c, ConnectionFailureFrom(resp.error), t)
        ELSE IF VersionChanged(c)
          THEN wrappedFunction(c, TRUE, loginPromise, promises,
                               [t EXCEPT !.restarts = @ + 1, !.trace = Append(@, "restart")])
        ELSE IF resp.t = "ok"
          THEN Return(c, RawResponse(resp, 0), t)
        ELSE maybeLogoutAndRetry(c, RawResponse(resp, 0), t)
  /\ UNCHANGED <<settings, settingsVersion, started>>
  /\ UNCHANGED listenerVars
  /\ UNCHANGED popupVars

\* ------------------------------------------------------- proxyWithoutAuth
\* a caller invokes Info.Query: missing-config at once, or the request is sent
\* to the base URL of the settings read at the invocation
InfoQuery ==
  /\ Work < MaxWork
  /\ started' = started + 1
  /\ IF getValidatedSettings(settings) = UndefinedSettings
       THEN FinishAtOnce([Task("query") EXCEPT !.result = MissingConfig,
                                               !.versionAtInit = settingsVersion],
                         settingsVersion)
       ELSE Suspend([Task("query") EXCEPT !.pc = "awaitFn", !.settings = settings,
                                          !.versionAtInit = settingsVersion,
                                          !.invocations = 1])
  /\ UNCHANGED <<settings, settingsVersion, loginPromise, promises>>
  /\ UNCHANGED listenerVars
  /\ UNCHANGED popupVars

\* Info.Query answers or throws and the proxy resumes from `await fn(...)`
InfoQueryRespond(i, resp) ==
  /\ i \in TaskIds
  /\ tasks[i].type = "query"
  /\ tasks[i].pc = "awaitFn"
  /\ Finish(i, [tasks[i] EXCEPT
       !.lastResp = RespName(resp),
       !.result = IF resp.t = "throw" THEN ConnectionFailureFrom(resp.error)
                  ELSE IF resp.t = "ok" THEN RawResponse(resp, 0)
                  ELSE [RawResponse(resp, 0) EXCEPT !.apiGroup = INFO_API_NAME]])
  /\ UNCHANGED <<settings, settingsVersion, loginPromise, promises, started>>
  /\ UNCHANGED listenerVars
  /\ UNCHANGED popupVars

\* ------------------------------------------------------- onSettingsChange
clientVars == <<settings, settingsVersion, loginPromise, promises, tasks, lastReturn, started>>

\* onSettingsChange(l): push the listener and return a closure whose
\* isSubscribed starts true
onSettingsChange(l) ==
  /\ Len(subscriptions) < MaxSubscriptions
  /\ onSettingsChangeListeners' = Append(onSettingsChangeListeners, l)
  /\ subscriptions' = Append(subscriptions, [listener |-> l, isSubscribed |-> TRUE])
  /\ UNCHANGED <<clientVars, listenerCalls>>
  /\ UNCHANGED popupVars

\* a caller calls the closure that the u-th onSettingsChange returned; a second
\* call of the same closure changes nothing
Unsubscribe(u) ==
  /\ u \in 1..Len(subscriptions)
  /\ subscriptions[u].isSubscribed
  /\ LET IsOther(x) == x # subscriptions[u].listener
     IN onSettingsChangeListeners' = SelectSeq(onSettingsChangeListeners, IsOther)
  /\ subscriptions' = [subscriptions EXCEPT ![u].isSubscribed = FALSE]
  /\ UNCHANGED <<clientVars, listenerCalls>>
  /\ UNCHANGED popupVars

\* --------------------------------------------------- onStoredStateChange
\* the stored state changes and its listener renders the Popup with the new
\* props: here a fetch of the download tasks has completed
TasksFetched(list) ==
  /\ props' = [props EXCEPT !.tasks = list, !.tasksLastCompletedFetchTimestamp = 1]
  /\ body' = renderBody(props')
  /\ UNCHANGED <<clientVars, listenerVars>>

\* the same listener, after the user has changed the visibility filters
VisibleTasksChanged(visibleTasks) ==
  /\ visibleTasks # props.taskFilter
  /\ props' = [props EXCEPT !.taskFilter = visibleTasks]
  /\ body' = renderBody(props')
  /\ UNCHANGED <<clientVars, listenerVars>>

\* ---------------------------------------------------------- specification
Next ==
  \/ CallStart
  \/ \E c \in 1..MaxWork : CallAfterLogin(c)
  \/ \E c \in 1..MaxWork, resp \in EndpointResponses : CallAfterFn(c, resp)
  \/ AuthLogin
  \/ \E l \in 1..MaxWork : AuthLoginDone(l)
  \/ \E p \in 1..MaxWork, resp \in LoginResponses : LoginRespondV2(p, resp)
  \/ \E p \in 1..MaxWork, resp \in LoginResponses : LoginRespondV3(p, resp)
  \/ AuthLogout
  \/ \E i \in 1..MaxWork : LogoutAfterLogin(i)
  \/ \E i \in 1..MaxWork, resp \in LogoutResponses : LogoutRespond(i, resp)
  \/ \E s \in SettingsSpace : updateSettings(s)

Spec == Init /\ [][Next]_vars

\* the proxied calls and updateSettings alone, over the wider choice of settings
NextSettings ==
  \/ CallStart
  \/ \E c \in 1..MaxWork : CallAfterLogin(c)
  \/ \E c \in 1..MaxWork, resp \in EndpointResponses : CallAfterFn(c, resp)
  \/ \E p \in 1..MaxWork, resp \in LoginResponses : LoginRespondV2(p, resp)
  \/ \E p \in 1..MaxWork, resp \in LoginResponses : LoginRespondV3(p, resp)
  \/ \E i \in 1..MaxWork : LogoutAfterLogin(i)
  \/ \E i \in 1..MaxWork, resp \in LogoutResponses : LogoutRespond(i, resp)
  \/ \E s \in WideSettingsSpace : updateSettings(s)

SpecSettings == Init /\ [][NextSettings]_vars

\* logins, logouts and calls under settings that do not change, over the
\* wider choice of login responses
NextLogin ==
  \/ CallStart
  \/ \E c \in 1..MaxWork : CallAfterLogin(c)
  \/ \E c \in 1..MaxWork, resp \in EndpointResponses : CallAfterFn(c, resp)
  \/ AuthLogin
  \/ \E l \in 1..MaxWork : AuthLoginDone(l)
  \/ \E p \in 1..MaxWork, resp \in WideLoginResponses : LoginRespondV2(p, resp)
  \/ \E p \in 1..MaxWork, resp \in WideLoginResponses : LoginRespondV3(p, resp)
  \/ AuthLogout
  \/ \E i \in 1..MaxWork : LogoutAfterLogin(i)
  \/ \E i \in 1..MaxWork, resp \in LogoutResponses : LogoutRespond(i, resp)

SpecLogin == Init /\ [][NextLogin]_vars

\* updateSettings and the subscriptions of onSettingsChange
NextListeners ==
  \/ \E l \in Listeners : onSettingsChange(l)
  \/ \E u \in 1..MaxSubscriptions : Unsubscribe(u)
  \/ \E s \in SettingsSpace : updateSettings(s)

SpecListeners == Init /\ [][NextListeners]_vars

\* every facade operation under fair scheduling.  A call that runs may still
\* create logins of its own: one for its retry, and one more for the restart
\* after a settings change it has not seen yet.  An operation is invoked only
\* when MaxWork leaves room for those, so that no running call is ever cut
\* short by the bound.
Need(c) ==
  IF settingsVersion # tasks[c].versionAtInit THEN 2
  ELSE IF tasks[c].shouldRetry THEN 1
  ELSE 0

Reserved == Cardinality({<<c, k>> \in Calls \X {1, 2} : k <= Need(c)})

Room(n) == Work + n + Reserved <= MaxWork

\* room for updateSettings: every running call may restart and retry after it
UpdateRoom == Work + 1 + 2 * Cardinality(Calls) <= MaxWork

\* a suspended operation resumes: the request it waits for is answered, or
\* the promise it awaits is resolved and its continuation is run
Resume ==
  \/ \E c \in 1..MaxWork : CallAfterLogin(c)
  \/ \E c \in 1..MaxWork, resp \in EndpointResponses : CallAfterFn(c, resp)
  \/ \E l \in 1..MaxWork : AuthLoginDone(l)
  \/ \E p \in 1..MaxWork, resp \in WideLoginResponses : LoginRespondV2(p, resp)
  \/ \E p \in 1..MaxWork, resp \in WideLoginResponses : LoginRespondV3(p, resp)
  \/ \E i \in 1..MaxWork : LogoutAfterLogin(i)
  \/ \E i \in 1..MaxWork, resp \in LogoutResponses : LogoutRespond(i, resp)
  \/ \E i \in 1..MaxWork, resp \in EndpointResponses : InfoQueryRespond(i, resp)

NextLive ==
  \/ Room(3) /\ CallStart
  \/ Room(2) /\ AuthLogin
  \/ Room(1) /\ AuthLogout
  \/ Room(1) /\ InfoQuery
  \/ UpdateRoom /\ \E s \in SettingsSpace : updateSettings(s)
  \/ Resume

\* every request is answered or throws in the end, and the event loop runs
\* every continuation that is ready
SpecLive == Init /\ [][NextLive]_vars /\ WF_vars(Resume)

\* every facade operation, on a client constructed with any of ConstructorSettings
InitFacade ==
  /\ settings \in ConstructorSettings
  /\ settingsVersion = 0
  /\ loginPromise = NoPromise
  /\ promises = <<>>
  /\ tasks = <<>>
  /\ lastReturn = Task("none")
  /\ started = 0
  /\ onSettingsChangeListeners = <<>>
  /\ subscriptions = <<>>
  /\ listenerCalls = [l \in Listeners |-> 0]
  /\ props = NoProps
  /\ body = NotRendered

NextFacade ==
  \/ Next
  \/ InfoQuery
  \/ \E i \in 1..MaxWork, resp \in EndpointResponses : InfoQueryRespond(i, resp)

SpecFacade == InitFacade /\ [][NextFacade]_vars

\* the three places that catch what a transport function throws (the login
\* chain, the call proxy and the proxy without authentication), over every
\* kind of error
NextErrors ==
  \/ CallStart
  \/ \E c \in 1..MaxWork : CallAfterLogin(c)
  \/ \E c \in 1..MaxWork, resp \in ErrorResponses : CallAfterFn(c, resp)
  \/ \E p \in 1..MaxWork, resp \in ErrorResponses : LoginRespondV2(p, resp)
  \/ InfoQuery
  \/ \E i \in 1..MaxWork, resp \in ErrorResponses : InfoQueryRespond(i, resp)

SpecErrors == Init /\ [][NextErrors]_vars

\* proxied calls alone: no logout and no settings change, so that
\* this.loginPromise is cleared by the invalidate-and-retry step only
NextCalls ==
  \/ CallStart
  \/ \E c \in 1..MaxWork : CallAfterLogin(c)
  \/ \E c \in 1..MaxWork, resp \in EndpointResponses : CallAfterFn(c, resp)
  \/ \E p \in 1..MaxWork, resp \in WideLoginResponses : LoginRespondV2(p, resp)
  \/ \E p \in 1..MaxWork, resp \in WideLoginResponses : LoginRespondV3(p, resp)

SpecCalls == Init /\ [][NextCalls]_vars

\* the popup, rendered again whenever the stored state changes
NextPopup ==
  \/ \E list \in TaskLists : TasksFetched(list)
  \/ \E visibleTasks \in VisibleTasksSpace : VisibleTasksChanged(visibleTasks)

SpecPopup == Init /\ [][NextPopup]_vars

\* ------------------------------------------------------------ properties
PromiseIds == 1..Len(promises)

\* the login promises with a login request (version 2 or its version-3
\* follow-up) sent and not yet answered
OutstandingLogins == {p \in PromiseIds : promises[p].stage # "resolved"}

\* C1 as stated: in every reachable state at most one login network request
\* is outstanding.
C1_AtMostOneLoginOutstanding == Cardinality(OutstandingLogins) <= 1

\* C1 as amended: a login promise is the cached one exactly as long as nothing
\* has overwritten this.loginPromise, so at most one login request is
\* outstanding beside those of logins that Auth.Logout, updateSettings or an
\* invalidate-and-retry step has already discarded.
C1_OneOutstandingLoginNotDiscarded ==
  /\ \A p \in PromiseIds : (p = loginPromise) <=> ~promises[p].dropped
  /\ Cardinality({p \in OutstandingLogins : ~promises[p].dropped}) <= 1

\* two login requests outstanding: a discarded login's and the cached login's
C1_Witness ==
  \E p, q \in OutstandingLogins : p # q /\ promises[p].dropped /\ q = loginPromise

\* ---- how a step shows in the state
\* task c takes this step: it changes in place or it returns
Stepped(c) ==
  /\ c \in TaskIds
  /\ \/ Len(tasks') = Len(tasks) /\ tasks'[c] # tasks[c]
     \/ Len(tasks') < Len(tasks) /\ tasks' = RemoveAt(tasks, c)

\* task c as this step leaves it
After(c) == IF Len(tasks') < Len(tasks) THEN lastReturn' ELSE tasks'[c]

\* this step invokes a facade operation that suspends at its first await
Invoked(types) ==
  /\ started' = started + 1
  /\ Len(tasks') = Len(tasks) + 1
  /\ tasks'[Len(tasks')].type \in types

\* a login promise keeps the result it resolved to
ResolvedLoginsKeepResult ==
  \A p \in PromiseIds :
    promises[p].stage = "resolved" =>
      promises'[p].stage = "resolved" /\ promises'[p].result = promises[p].result

\* an authenticated call or Auth.Login invoked with valid settings awaits the
\* cached login and sends nothing when one is cached, and otherwise sends
\* exactly one login request, caches it and awaits it
JoinsCachedLogin ==
  Invoked({"call", "login"}) /\ getValidatedSettings(settings) # UndefinedSettings =>
    IF loginPromise # NoPromise
      THEN /\ tasks'[Len(tasks')].awaited = loginPromise
           /\ loginPromise' = loginPromise
           /\ promises' = promises
      ELSE /\ Len(promises') = Len(promises) + 1
           /\ loginPromise' = Len(promises')
           /\ tasks'[Len(tasks')].awaited = Len(promises')
           /\ promises'[Len(promises')].stage = "v2"

\* what the awaiters of a login have seen is the one result of that login
ObservesLoginResult ==
  /\ lastReturn.type = "login" => lastReturn.result = LoginResultOf(lastReturn.awaited)
  /\ lastReturn.type = "call" /\ lastReturn.invocations = 0 =>
       lastReturn.result \in
         {LoginResultOf(lastReturn.awaited),
          [LoginResultOf(lastReturn.awaited) EXCEPT !.apiGroup = TASK_API_NAME]}
  /\ \A c \in Calls :
       tasks[c].pc = "awaitFn" =>
         /\ tasks[c].sid = tasks[c].awaited
         /\ LoginResultOf(tasks[c].awaited) = Success(tasks[c].sid)

\* C2: the authenticated calls and Auth.Login calls invoked while a login is
\* cached all await that one login promise, for which exactly one login
\* attempt was issued, and each of them observes the result that promise
\* resolved to.
C2_SingleFlight ==
  /\ [][JoinsCachedLogin /\ ResolvedLoginsKeepResult]_vars
  /\ []ObservesLoginResult

\* one login was sent; Auth.Login returned its success and a call invoked the
\* endpoint with the same sid
C2_Witness ==
  /\ Len(promises) = 1
  /\ lastReturn.type = "login"
  /\ lastReturn.result = Success(1)
  /\ \E c \in Calls : tasks[c].pc = "awaitFn" /\ tasks[c].sid = 1 /\ tasks[c].retries = 0

\* C3: the sid the proxy passes to the endpoint function comes from a login
\* issued under the settings version (and settings) current at the invocation;
\* a call that resumes from awaiting a login after the version changed drops
\* that login's result and re-enters with the new version, awaiting a login
\* issued under it.
C3_SidFromCurrentSettings ==
  [][\A c \in TaskIds :
       /\ (tasks[c].type = "call" /\ tasks[c].pc = "awaitLogin" /\ Stepped(c)
           /\ After(c).pc = "awaitFn") =>
            /\ After(c).sid \in PromiseIds
            /\ promises[After(c).sid].ver = settingsVersion
            /\ promises[After(c).sid].settings = settings
            /\ promises[After(c).sid].result = Success(After(c).sid)
       /\ (tasks[c].type = "call" /\ tasks[c].pc = "awaitLogin" /\ Stepped(c)
           /\ settingsVersion # tasks[c].versionAtInit) =>
            /\ After(c).pc = "awaitLogin"
            /\ After(c).versionAtInit = settingsVersion
            /\ After(c).restarts = tasks[c].restarts + 1
            /\ After(c).invocations = tasks[c].invocations
            /\ After(c).awaited # NoPromise =>
                 /\ After(c).awaited # tasks[c].awaited
                 /\ promises'[After(c).awaited].ver = settingsVersion
                 /\ promises'[After(c).awaited].settings = settings]_vars

\* a call restarted after a settings change and then invoked the endpoint with
\* the sid of a login issued under the new settings
C3_Witness ==
  \E c \in Calls :
    /\ tasks[c].pc = "awaitFn"
    /\ tasks[c].restarts = 1
    /\ promises[tasks[c].sid].ver = settingsVersion
    /\ settingsVersion = 1
    /\ promises[tasks[c].sid].settings.baseUrl = "h2"

\* the facade operation this step invokes, as the step leaves it
NewOp == IF Len(tasks') > Len(tasks) THEN tasks'[Len(tasks')] ELSE lastReturn'

\* this step is a call of updateSettings
UpdateInvoked == started' = started + 1 /\ NewOp.type = "update"

\* the cached login, and the login a call awaits, were issued under the
\* settings version in force (for the call: the version it snapshotted)
LoginOfCurrentVersion ==
  /\ loginPromise # NoPromise =>
       /\ promises[loginPromise].ver = settingsVersion
       /\ promises[loginPromise].settings = settings
  /\ \A c \in Calls :
       tasks[c].pc = "awaitLogin" /\ tasks[c].awaited # NoPromise =>
         promises[tasks[c].awaited].ver = tasks[c].versionAtInit

\* C4: updateSettings with settings that differ from the stored ones in at
\* least one key returns true, adds exactly one to settingsVersion, stores the
\* new settings and empties this.loginPromise in the same step; hence a login
\* is cached, or awaited by a call, only under the version it was issued for.
C4_EffectiveUpdate ==
  /\ [][UpdateInvoked /\ NewOp.settings # settings =>
          /\ NewOp.ret = TRUE
          /\ settingsVersion' = settingsVersion + 1
          /\ settings' = NewOp.settings
          /\ loginPromise' = NoPromise]_vars
  /\ []LoginOfCurrentVersion

\* an effective updateSettings found login 1 cached, and afterwards a call had
\* login 2 issued under the new version
C4_Witness ==
  /\ \E i \in Updates : tasks[i].ret /\ tasks[i].awaited = 1
  /\ loginPromise = 2
  /\ promises[2].ver = settingsVersion
  /\ settingsVersion = 1
  /\ \E c \in Calls : tasks[c].awaited = 2

\* C5: updateSettings with settings equal to the stored ones in all four keys
\* returns false and changes neither settingsVersion, the stored settings nor
\* this.loginPromise, sends no request and starts no logout.
C5_NoopUpdate ==
  [][UpdateInvoked /\ NewOp.settings = settings =>
       /\ NewOp.ret = FALSE
       /\ NewOp.pc = "done"
       /\ UNCHANGED <<settingsVersion, settings, loginPromise, promises, tasks>>]_vars

\* updateSettings was called with the stored settings while a login was cached
\* and a call was awaiting it
C5_Witness ==
  /\ lastReturn.type = "update"
  /\ ~lastReturn.ret
  /\ lastReturn.settings = settings
  /\ loginPromise # NoPromise
  /\ \E c \in Calls : tasks[c].awaited = loginPromise

\* ---- what a call has done
\* the calls still running and the call that returned last
CallRecords ==
  {tasks[c] : c \in Calls} \cup (IF lastReturn.type = "call" THEN {lastReturn} ELSE {})

AuthorizationFailures == {"105", "106"}

CodeOf(name) ==
  IF name = "105" THEN NO_PERMISSIONS_ERROR_CODE
  ELSE IF name = "106" THEN SESSION_TIMEOUT_ERROR_CODE
  ELSE OTHER_ERROR_CODE

\* result is what the proxy returns for the endpoint response called name
ResultMatches(result, name) ==
  IF name = "ok" THEN result = Success(0)
  ELSE IF name = "throw" THEN isConnectionFailure(result) /\ result.type # "missing-config"
  ELSE result = [Failure(CodeOf(name)) EXCEPT !.apiGroup = TASK_API_NAME]

\* result is what the proxy returns for a failed login
ReturnsLoginFailure(result, login) ==
  /\ login.kind # "success"
  /\ result = IF isConnectionFailure(login) THEN login
              ELSE [login EXCEPT !.apiGroup = TASK_API_NAME]

\* the settings version did not change while call t ran
NoSettingsChange(t) == t.restarts = 0 /\ t.endVersion = t.versionAtInit

\* C6 as stated: with no settings change, a call whose endpoint response is a
\* failure 105 or 106 invokes the endpoint exactly once more after one retry
\* step and returns what that second invocation gave.
C6_RetriedExactlyOnce ==
  lastReturn.type = "call" /\ NoSettingsChange(lastReturn)
    /\ lastReturn.firstResp \in AuthorizationFailures =>
      /\ lastReturn.retries = 1
      /\ lastReturn.invocations = 2
      /\ ResultMatches(lastReturn.result, lastReturn.lastResp)

\* C6 as amended: with no settings change, a call that has not retried yet and
\* whose endpoint response is a failure 105 or 106 takes the retry step, which
\* replaces the cached login by a new login request; if that login succeeds
\* the endpoint is invoked exactly once more and its outcome is returned
\* (success, or the failure tagged with the API group, with no third
\* invocation); if that login fails, the login failure is returned and the
\* endpoint is not invoked again.
C6_RetriedOnceAfterRelogin ==
  /\ lastReturn.type = "call" /\ NoSettingsChange(lastReturn)
       /\ lastReturn.trace # <<>> /\ lastReturn.trace[1] \in AuthorizationFailures =>
         /\ Len(lastReturn.trace) >= 2
         /\ lastReturn.trace[2] = "retry"
         /\ lastReturn.retries = 1
         /\ lastReturn.awaited \in PromiseIds
         /\ IF LoginResultOf(lastReturn.awaited).kind = "success"
              THEN /\ Len(lastReturn.trace) = 3
                   /\ lastReturn.invocations = 2
                   /\ lastReturn.sid = lastReturn.awaited
                   /\ ResultMatches(lastReturn.result, lastReturn.trace[3])
              ELSE /\ Len(lastReturn.trace) = 2
                   /\ lastReturn.invocations = 1
                   /\ lastReturn.awaited # lastReturn.sid
                   /\ ReturnsLoginFailure(lastReturn.result, LoginResultOf(lastReturn.awaited))
  /\ \A c \in Calls :
       tasks[c].restarts = 0 /\ tasks[c].versionAtInit = settingsVersion
         /\ tasks[c].trace # <<>> /\ tasks[c].trace[1] \in AuthorizationFailures =>
           /\ tasks[c].trace = <<tasks[c].trace[1], "retry">>
           /\ ~tasks[c].shouldRetry
           /\ tasks[c].awaited \in PromiseIds
           /\ tasks[c].pc = "awaitLogin" =>
                tasks[c].awaited > tasks[c].sid /\ tasks[c].invocations = 1
           /\ tasks[c].pc = "awaitFn" =>
                tasks[c].sid = tasks[c].awaited /\ tasks[c].invocations = 2

\* a call got 106, logged in again, invoked the endpoint a second time and
\* returned its success
C6_Witness ==
  /\ lastReturn.type = "call"
  /\ NoSettingsChange(lastReturn)
  /\ lastReturn.trace = <<"106", "retry", "ok">>
  /\ lastReturn.result = Success(0)
  /\ lastReturn.sid = 2

\* C7 as stated: over its whole lifetime a call takes the invalidate-and-retry
\* step at most once.
C7_AtMostOneRetry == \A t \in CallRecords : t.retries <= 1

\* C7 as amended: a call takes the invalidate-and-retry step at most once under
\* each settings version it runs under; a restart after a settings change
\* allows it once more, so the step is taken at most once more than the call
\* restarted, and a call restarts at most once per settings change.
C7_OneRetryPerSettingsVersion ==
  \A t \in CallRecords :
    /\ \A i, j \in 1..Len(t.trace) :
         i < j /\ t.trace[i] = "retry" /\ t.trace[j] = "retry" =>
           \E k \in (i + 1)..(j - 1) : t.trace[k] = "restart"
    /\ t.retries <= t.restarts + 1
    /\ t.restarts <= t.versionAtInit

\* a call that retried, restarted after a settings change and retried again
C7_Witness == \E t \in CallRecords : t.retries = 2 /\ t.restarts = 1

\* C8 as stated: over the lifetime of one call the endpoint function returns a
\* success response at most once.
C8_AtMostOneSuccess == \A t \in CallRecords : t.okResponses <= 1

\* C8 as amended: a success response of the endpoint function is returned to
\* the caller unless the settings version changed during that invocation, in
\* which case it is dropped and the call restarts; so the endpoint succeeds at
\* most once under each settings version the call runs under.
C8_SuccessReturnedUnlessRestarted ==
  /\ \A t \in CallRecords :
       /\ \A i \in 1..Len(t.trace) :
            t.trace[i] = "ok" =>
              \/ i < Len(t.trace) /\ t.trace[i + 1] = "restart"
              \/ i = Len(t.trace) /\ t.pc = "done" /\ t.result = Success(0)
       /\ t.okResponses <= t.restarts + 1
       /\ t.restarts <= t.versionAtInit

\* a call whose first success response was dropped by a restart and whose
\* second one was returned
C8_Witness ==
  /\ lastReturn.type = "call"
  /\ lastReturn.okResponses = 2
  /\ lastReturn.trace = <<"ok", "restart", "ok">>
  /\ lastReturn.result = Success(0)

\* call c resumes from `await fn(...)` in this step
FnStep(c) == c \in TaskIds /\ tasks[c].type = "call" /\ tasks[c].pc = "awaitFn" /\ Stepped(c)

\* call c returns the failure with a code other than 105 and 106 in this step,
\* without a retry, a new login request or a change of the cached login
ReturnsOtherFailure(c) ==
  /\ After(c).pc = "done"
  /\ After(c).result = [Failure(OTHER_ERROR_CODE) EXCEPT !.apiGroup = TASK_API_NAME]
  /\ After(c).invocations = tasks[c].invocations
  /\ After(c).retries = tasks[c].retries
  /\ After(c).restarts = tasks[c].restarts
  /\ promises' = promises
  /\ loginPromise' = loginPromise

\* C9 as stated: a call whose endpoint response is a failure with a code other
\* than 105 and 106 returns it, tagged with the API group, after exactly one
\* invocation, with no retry, no new login request and the cached login kept.
C9_OtherFailureAfterOneInvocation ==
  [][\A c \in TaskIds :
       FnStep(c) /\ After(c).lastResp = "other" =>
         ReturnsOtherFailure(c) /\ After(c).invocations = 1]_vars

\* C9 as amended: a call whose endpoint response is a failure with a code other
\* than 105 and 106, received under the settings version the attempt started
\* with, returns it, tagged with the API group, without invoking the endpoint
\* again (after exactly one invocation if the call has neither retried nor
\* restarted before), with no retry, no new login request and the cached login
\* kept.
C9_OtherFailureReturnedAtOnce ==
  [][\A c \in TaskIds :
       FnStep(c) /\ After(c).lastResp = "other"
         /\ settingsVersion = tasks[c].versionAtInit =>
           /\ ReturnsOtherFailure(c)
           /\ tasks[c].retries = 0 /\ tasks[c].restarts = 0 => After(c).invocations = 1]_vars

\* a call returned a failure with another code after one invocation, and the
\* login it used is still the cached one
C9_Witness ==
  /\ lastReturn.type = "call"
  /\ lastReturn.trace = <<"other">>
  /\ lastReturn.result = [Failure(OTHER_ERROR_CODE) EXCEPT !.apiGroup = TASK_API_NAME]
  /\ lastReturn.invocations = 1
  /\ loginPromise = lastReturn.sid

\* C10: when the settings version changed between the start of an attempt and
\* the completion of its endpoint invocation, the outcome of the invocation
\* (success, failure or thrown exception) is not returned: the call restarts
\* under the new version.
C10_StaleOutcomeNeverReturned ==
  [][\A c \in TaskIds :
       FnStep(c) /\ settingsVersion # tasks[c].versionAtInit =>
         /\ After(c).pc = "awaitLogin"
         /\ After(c).restarts = tasks[c].restarts + 1
         /\ After(c).versionAtInit = settingsVersion]_vars

\* ---- missing configuration
\* a key of the stored settings is missing or empty
SettingsIncomplete == \E k \in SETTING_NAME_KEYS : settings[k] \in {Undefined, ""}

\* this step invokes a facade operation of one of the types
Invokes(types) == started' = started + 1 /\ NewOp.type \in types

\* an operation invoked under incomplete settings sends nothing and leaves
\* the cached login and the version alone; Info.Query returns missing-config
\* in that step, Auth.Login and an authenticated call await the failure
InvokedIncomplete ==
  Invokes({"call", "query", "login"}) /\ SettingsIncomplete =>
    /\ UNCHANGED <<promises, loginPromise, settingsVersion, settings>>
    /\ NewOp.invocations = 0
    /\ NewOp.type = "query" => NewOp.pc = "done" /\ NewOp.result = MissingConfig
    /\ NewOp.type \in {"call", "login"} =>
         NewOp.pc = "awaitLogin" /\ NewOp.awaited = NoPromise

\* a suspended operation that resumes under incomplete settings, at the version
\* it started with, sends nothing either: Auth.Login returns missing-config, a
\* call re-enters once (its retry) and then returns missing-config
ResumedIncomplete ==
  \A c \in TaskIds :
    Stepped(c) /\ SettingsIncomplete /\ tasks[c].type \in {"call", "login"}
      /\ tasks[c].pc = "awaitLogin" /\ tasks[c].versionAtInit = settingsVersion
      /\ tasks[c].awaited = NoPromise =>
        /\ UNCHANGED <<promises, loginPromise, settingsVersion, settings>>
        /\ After(c).invocations = tasks[c].invocations
        /\ IF tasks[c].type = "call" /\ tasks[c].shouldRetry
             THEN After(c).pc = "awaitLogin" /\ After(c).awaited = NoPromise
                  /\ ~After(c).shouldRetry
             ELSE After(c).pc = "done" /\ After(c).result = MissingConfig

\* under incomplete settings no login is cached, and an operation that ran
\* under them from its invocation to its return has returned missing-config
\* without invoking an endpoint
IncompleteState ==
  SettingsIncomplete =>
    /\ loginPromise = NoPromise
    /\ \A c \in TaskIds :
         tasks[c].type \in {"call", "login"} /\ tasks[c].versionAtInit = settingsVersion
           /\ tasks[c].restarts = 0 =>
             tasks[c].awaited = NoPromise /\ tasks[c].invocations = 0
    /\ lastReturn.type \in {"call", "query"} /\ lastReturn.versionAtInit = settingsVersion
         /\ lastReturn.restarts = 0 =>
           lastReturn.result = MissingConfig /\ lastReturn.invocations = 0

\* C11: while a key of the settings is missing or empty, every authenticated
\* call, Info.Query and Auth.Login returns the connection failure
\* missing-config, sends no login request and invokes no endpoint, and leaves
\* the cached login empty and the settings version unchanged.
C11_MissingConfig ==
  /\ [][InvokedIncomplete /\ ResumedIncomplete]_vars
  /\ []IncompleteState

\* with the password empty an authenticated call returned missing-config
\* after its retry, and no login request was ever sent
C11_Witness ==
  /\ settings.passwd = ""
  /\ lastReturn.type = "call"
  /\ lastReturn.versionAtInit = settingsVersion
  /\ lastReturn.result = MissingConfig
  /\ lastReturn.trace = <<"retry">>
  /\ promises = <<>>

\* ---- logout
\* C12: Auth.Logout invoked while no login is cached returns "not-logged-in"
\* in the step that invokes it, sends no request and changes nothing of the
\* client, whether the settings are complete or not.
C12_LogoutNotLoggedIn ==
  [][Invokes({"logout"}) /\ loginPromise = NoPromise =>
       /\ NewOp.pc = "done"
       /\ NewOp.result = NotLoggedIn
       /\ UNCHANGED <<settings, settingsVersion, loginPromise, promises, tasks>>]_vars

\* Auth.Logout returned "not-logged-in" under incomplete settings
C12_Witness ==
  /\ lastReturn.type = "logout"
  /\ lastReturn.result = NotLoggedIn
  /\ lastReturn.endVersion = settingsVersion
  /\ SettingsIncomplete

\* this step invokes Auth.Logout or an effective updateSettings
LogoutInvoked == Invokes({"logout"}) \/ (UpdateInvoked /\ NewOp.ret)

\* the logouts that have stashed a login and not returned yet
LogoutsInFlight == {i \in Logouts : tasks[i].awaited # NoPromise}

\* the logout empties the cache in the step that invokes it and keeps the
\* login it found only as its own stash
LogoutClearsAtOnce ==
  LogoutInvoked =>
    /\ loginPromise' = NoPromise
    /\ NewOp.awaited = loginPromise
    /\ NewOp.pc \in {"done", "awaitLogin"}

\* an Auth.Login or authenticated call invoked under complete settings when
\* the cache is empty sends a new login request, logouts in flight or not
NewLoginAfterLogout ==
  Invokes({"call", "login"}) /\ loginPromise = NoPromise /\ ~SettingsIncomplete =>
    /\ Len(promises') = Len(promises) + 1
    /\ promises'[Len(promises')].stage = "v2"
    /\ loginPromise' = Len(promises')
    /\ NewOp.awaited = Len(promises')

\* while a logout is in flight, the login it stashed is not the cached one, and
\* every Auth.Login and authenticated call invoked after the logout awaits (and
\* takes its sid from) a login created after it
NotHandedStashedLogin ==
  \A i \in LogoutsInFlight :
    /\ loginPromise # tasks[i].awaited
    /\ \A j \in TaskIds :
         j > i /\ tasks[j].type \in {"call", "login"} =>
           /\ tasks[j].awaited = NoPromise \/ tasks[j].awaited > tasks[i].awaited
           /\ tasks[j].pc = "awaitFn" => tasks[j].sid > tasks[i].awaited

\* C13: Auth.Logout and the logout of an effective updateSettings empty the
\* cached login in the step that invokes them, before any await; an Auth.Login
\* or authenticated call invoked afterwards, also while the logout is in
\* flight, is served by a login request sent after the logout began and never
\* by the login being logged out.
C13_LogoutClearsBeforeAwait ==
  /\ [][LogoutClearsAtOnce /\ NewLoginAfterLogout]_vars
  /\ []NotHandedStashedLogin

\* a logout request for login 1 is unanswered while a call invoked after the
\* logout already invokes the endpoint with the sid of login 2
C13_Witness ==
  \E i \in LogoutsInFlight :
    /\ tasks[i].pc = "awaitLogout"
    /\ tasks[i].sid = 1
    /\ \E j \in Calls : j > i /\ tasks[j].pc = "awaitFn" /\ tasks[j].sid = 2

\* ---- no rejection
ConnectionFailureTypes ==
  {"missing-config", "probable-wrong-protocol",
   "probable-wrong-url-or-no-connection-or-cert-error", "timeout", "unknown"}

\* r is a value of ClientRequestResult: a success, an API failure annotated
\* with its API group, or a connection failure of one of the five types
IsClientRequestResult(r) ==
  \/ r.kind = "success"
  \/ r.kind = "failure" /\ r.apiGroup # ""
  \/ r.kind = "connfail" /\ r.type \in ConnectionFailureTypes

\* C14: every authenticated call, Info.Query, Auth.Login and Auth.Logout, and
\* the logout started by updateSettings, ends with a value (success, API
\* failure, connection failure, or "not-logged-in" for a logout) whatever the
\* login, logout and endpoint requests answer or throw; none ends rejected,
\* and no login promise resolves to anything but such a value.
C14_NeverRejects ==
  /\ \A p \in PromiseIds :
       promises[p].stage = "resolved" => IsClientRequestResult(promises[p].result)
  /\ lastReturn.type \in {"call", "query", "login"} => IsClientRequestResult(lastReturn.result)
  /\ lastReturn.type = "logout" \/ (lastReturn.type = "update" /\ lastReturn.ret) =>
       IsClientRequestResult(lastReturn.result) \/ lastReturn.result = NotLoggedIn
  /\ \A i \in TaskIds : tasks[i].result = NoResult

\* the logout request of the logout that updateSettings started threw, and
\* that logout ended with the classified connection failure
C14_Witness ==
  /\ lastReturn.type = "update"
  /\ lastReturn.ret
  /\ lastReturn.sid = 1
  /\ lastReturn.result = ConnectionFailureFrom("NetworkError")

\* ---- listeners
\* C15: an updateSettings that returns true calls every listener registered
\* through onSettingsChange and not unsubscribed; one that returns false calls
\* no listener.
C15_ListenersInvoked ==
  [][UpdateInvoked =>
       IF NewOp.ret
         THEN \A i \in 1..Len(onSettingsChangeListeners) :
                listenerCalls'[onSettingsChangeListeners[i]] >
                  listenerCalls[onSettingsChangeListeners[i]]
         ELSE listenerCalls' = listenerCalls]_vars

\* ---- the login behind a 105 or 106
\* a login that has been taken out of the cache never returns to it
DroppedLoginsStayDropped ==
  \A p \in PromiseIds : promises[p].dropped => promises'[p].dropped /\ loginPromise' # p

\* C16 as stated: whenever the endpoint invocation of an authenticated call
\* returns a failure 106 or 105, on the first attempt and on the retry alike,
\* the login whose sid was used is not the cached login from that step on, so
\* it is not the cached login when the call returns.
C16_FailedLoginUncached ==
  [][/\ \A c \in TaskIds :
          FnStep(c) /\ After(c).lastResp \in AuthorizationFailures =>
            loginPromise' # tasks[c].sid
     /\ DroppedLoginsStayDropped]_vars

\* C16 as amended: when the endpoint invocation of an authenticated call
\* returns a failure 106 or 105 while the call may still retry (or after the
\* settings version changed), the login whose sid was used is not the cached
\* login from that step on; when the call has used its retry, the failure is
\* returned with the cache untouched, so the login that failed can stay cached.
C16_FailedLoginUncachedUnlessRetried ==
  [][/\ \A c \in TaskIds :
          FnStep(c) /\ After(c).lastResp \in AuthorizationFailures =>
            IF tasks[c].shouldRetry \/ settingsVersion # tasks[c].versionAtInit
              THEN loginPromise' # tasks[c].sid
              ELSE /\ After(c).pc = "done"
                   /\ After(c).result =
                        [Failure(CodeOf(After(c).lastResp)) EXCEPT !.apiGroup = TASK_API_NAME]
                   /\ UNCHANGED <<loginPromise, promises>>
     /\ DroppedLoginsStayDropped]_vars

\* a call got 106, logged in again, got 106 again and returned it; the
\* login of its second attempt is still the cached one
C16_Witness ==
  /\ lastReturn.type = "call"
  /\ lastReturn.trace = <<"106", "retry", "106">>
  /\ lastReturn.sid = 2
  /\ loginPromise = 2
  /\ promises[1].dropped

\* ---- the login protocol
\* what a login promise resolves to for a response that ends its chain
LoginResolution(resp, p) ==
  IF resp.t = "throw" THEN ConnectionFailureFrom(resp.error)
  ELSE IF resp.t = "ok" THEN Success(p)
  ELSE [Failure(resp.code) EXCEPT !.apiGroup = AUTH_API_NAME]

\* a step creates at most one login, and the login starts with its version-2
\* request outstanding
LoginStartsAtV2 ==
  /\ Len(promises') \in {Len(promises), Len(promises) + 1}
  /\ Len(promises') = Len(promises) + 1 =>
       promises'[Len(promises')].stage = "v2" /\ promises'[Len(promises')].result = NoResult

\* the version-2 response is followed by a version-3 request if and only if
\* it is the failure 103; any other response, or a throw, resolves the login
V2ThenV3OnlyOn103 ==
  \A p \in PromiseIds, resp \in WideLoginResponses :
    LoginRespondV2(p, resp) =>
      IF resp = RespFail(NO_SUCH_METHOD_ERROR_CODE)
        THEN promises'[p].stage = "v3" /\ promises'[p].result = NoResult
        ELSE promises'[p].stage = "resolved" /\ promises'[p].result = LoginResolution(resp, p)

\* the version-3 response, whatever it is, resolves the login: no further request
V3ResolvesLogin ==
  /\ \A p \in PromiseIds, resp \in WideLoginResponses :
       LoginRespondV3(p, resp) =>
         promises'[p].stage = "resolved" /\ promises'[p].result = LoginResolution(resp, p)
  /\ \A p \in PromiseIds :
       /\ promises[p].stage = "v3" => promises'[p].stage \in {"v3", "resolved"}
       /\ promises[p].stage = "resolved" => promises'[p] = [promises[p] EXCEPT
                                              !.dropped = promises'[p].dropped]

\* a call that goes on to the endpoint passes the sid of the login it awaited
EndpointGetsLoginSid ==
  \A c \in TaskIds :
    tasks[c].type = "call" /\ tasks[c].pc = "awaitLogin" /\ Stepped(c)
      /\ After(c).pc = "awaitFn" =>
        /\ LoginResultOf(tasks[c].awaited) = Success(After(c).sid)
        /\ After(c).invocations = tasks[c].invocations + 1

\* C17: every login starts with a version-2 request; a version-3 request
\* follows if and only if the version-2 response is the failure 103, and at
\* most once; the login resolves to the version-3 response in that case and
\* to the version-2 response otherwise (a throw: the classified connection
\* failure), and a call then invokes the endpoint with that login's sid.
C17_LoginProtocol ==
  [][LoginStartsAtV2 /\ V2ThenV3OnlyOn103 /\ V3ResolvesLogin /\ EndpointGetsLoginSid]_vars

\* version 2 and then version 3 both answered 103 and login 1 resolved to
\* that failure; the call that awaited it retried with login 2 and invokes
\* the endpoint with the sid of login 2
C17_Witness ==
  /\ Len(promises) = 2
  /\ promises[1].result = [Failure(NO_SUCH_METHOD_ERROR_CODE) EXCEPT !.apiGroup = AUTH_API_NAME]
  /\ promises[2].result = Success(2)
  /\ \E c \in Calls : tasks[c].pc = "awaitFn" /\ tasks[c].sid = 2

\* ---- Auth.Logout with a login cached
\* Auth.Logout invoked under complete settings with a login cached awaits
\* that login
LogoutAwaitsCachedLogin ==
  Invokes({"logout"}) /\ loginPromise # NoPromise /\ ~SettingsIncomplete =>
    /\ NewOp.pc = "awaitLogin"
    /\ NewOp.awaited = loginPromise
    /\ promises' = Dropped(promises, loginPromise)

\* it resumes once the login is resolved: a logout request with the login's
\* sid after a success, and otherwise the login's own result, with no request
LogoutRequestOnlyAfterSuccess ==
  \A i \in TaskIds :
    tasks[i].type = "logout" /\ tasks[i].pc = "awaitLogin" /\ Stepped(i) =>
      /\ promises[tasks[i].awaited].stage = "resolved"
      /\ IF promises[tasks[i].awaited].result.kind = "success"
           THEN /\ After(i).pc = "awaitLogout"
                /\ After(i).sid = promises[tasks[i].awaited].result.sid
                /\ After(i).sid = tasks[i].awaited
           ELSE /\ After(i).pc = "done"
                /\ After(i).result = promises[tasks[i].awaited].result

\* the answer to the one logout request ends the logout: the response, with
\* a failure annotated, or the classified connection failure for a throw
LogoutRequestAnswered ==
  \A i \in TaskIds, resp \in LogoutResponses :
    tasks[i].type = "logout" /\ LogoutRespond(i, resp) =>
      /\ After(i).pc = "done"
      /\ After(i).sid = tasks[i].sid
      /\ After(i).result =
           IF resp.t = "throw" THEN ConnectionFailureFrom(resp.error)
           ELSE IF resp.t = "ok" THEN Success(0)
           ELSE [Failure(resp.code) EXCEPT !.apiGroup = AUTH_API_NAME]

\* C18: Auth.Logout invoked with complete settings while a login is cached
\* awaits that login and sends a logout request if and only if the login
\* resolved to a success: exactly one request, with that login's sid; when the
\* login resolved to a connection failure or an API failure it returns that
\* result and sends nothing; a logout request that throws is returned as the
\* classified connection failure.
C18_LogoutAfterLogin ==
  [][LogoutAwaitsCachedLogin /\ LogoutRequestOnlyAfterSuccess /\ LogoutRequestAnswered]_vars

\* Auth.Logout awaited login 1, sent the logout request with sid 1 after its
\* success, and returned the classified failure of the request that threw
C18_Witness ==
  /\ lastReturn.type = "logout"
  /\ lastReturn.awaited = 1
  /\ lastReturn.sid = 1
  /\ promises[1].result = Success(1)
  /\ lastReturn.result = ConnectionFailureFrom("NetworkError")

\* ---- connection failures in a call
\* the invalidate-and-retry steps of a trace that follow a failed login (the
\* others follow an endpoint failure 105 or 106)
LoginRetries(tr) ==
  Cardinality({i \in 1..Len(tr) :
                 tr[i] = "retry" /\ (i = 1 \/ tr[i - 1] \notin AuthorizationFailures)})

\* call c resumes from `await this.maybeLogin()` in this step with a
\* connection failure, under the settings version it started with
LoginConnectionFailureStep(c) ==
  /\ c \in TaskIds
  /\ tasks[c].type = "call"
  /\ tasks[c].pc = "awaitLogin"
  /\ Stepped(c)
  /\ settingsVersion = tasks[c].versionAtInit
  /\ isConnectionFailure(LoginResultOf(tasks[c].awaited))

\* the step clears the cached login and re-enters the call with its retry spent
RetriesAfterLoginFailure(c) ==
  /\ After(c).pc = "awaitLogin"
  /\ After(c).retries = tasks[c].retries + 1
  /\ After(c).invocations = tasks[c].invocations
  /\ ~After(c).shouldRetry
  /\ IF SettingsIncomplete
       THEN loginPromise' = NoPromise /\ After(c).awaited = NoPromise
       ELSE /\ Len(promises') = Len(promises) + 1
            /\ loginPromise' = Len(promises')
            /\ After(c).awaited = Len(promises')
  /\ loginPromise # NoPromise => promises'[loginPromise].dropped

\* an exception thrown by the endpoint function is returned as the classified
\* connection failure in the step that receives it: no retry, no further
\* invocation, cache untouched
ThrowReturnedAtOnce(c) ==
  /\ After(c).pc = "done"
  /\ After(c).result = ConnectionFailureFrom("NetworkError")
  /\ After(c).invocations = tasks[c].invocations
  /\ After(c).retries = tasks[c].retries
  /\ After(c).restarts = tasks[c].restarts
  /\ UNCHANGED <<loginPromise, promises>>

\* C19 as stated: a call retries a connection failure at most once in its
\* lifetime and only when the login step produced it (the cached login is
\* cleared and the call re-run); an exception thrown by the endpoint function
\* is returned as a classified connection failure after a single endpoint
\* invocation, with no retry and the cached login left in place.
C19_ConnectionFailureRetriedOnce ==
  /\ [][\A c \in TaskIds :
          /\ LoginConnectionFailureStep(c) /\ tasks[c].shouldRetry =>
               RetriesAfterLoginFailure(c)
          /\ FnStep(c) /\ After(c).lastResp = "throw" =>
               ThrowReturnedAtOnce(c) /\ After(c).invocations = 1]_vars
  /\ [](\A t \in CallRecords : LoginRetries(t.trace) <= 1)

\* C19 as amended: a call retries a connection failure only when the login
\* step produced it, and at most once under each settings version it runs
\* under: with its retry unspent it clears the cached login and re-enters,
\* with its retry spent it returns the failure; an exception thrown by the
\* endpoint function is returned as a classified connection failure without a
\* further endpoint invocation (after a single one if the call has neither
\* retried nor restarted), with no retry and the cached login left in place.
C19_ConnectionFailureRetriedAtLogin ==
  /\ [][\A c \in TaskIds :
          /\ LoginConnectionFailureStep(c) =>
               IF tasks[c].shouldRetry
                 THEN RetriesAfterLoginFailure(c)
                 ELSE /\ After(c).pc = "done"
                      /\ After(c).result = LoginResultOf(tasks[c].awaited)
                      /\ After(c).retries = tasks[c].retries
                      /\ UNCHANGED <<loginPromise, promises>>
          /\ FnStep(c) /\ After(c).lastResp = "throw" =>
               /\ ThrowReturnedAtOnce(c)
               /\ tasks[c].retries = 0 /\ tasks[c].restarts = 0 =>
                    After(c).invocations = 1]_vars
  /\ [](\A t \in CallRecords :
          /\ LoginRetries(t.trace) <= t.restarts + 1
          /\ t.retries <= t.restarts + 1)

\* the first login of a call threw, the call retried with login 2, and the
\* endpoint function then threw: the call returned that failure after one
\* invocation and login 2 is still cached
C19_Witness ==
  /\ lastReturn.type = "call"
  /\ lastReturn.trace = <<"retry", "throw">>
  /\ lastReturn.invocations = 1
  /\ lastReturn.result = ConnectionFailureFrom("NetworkError")
  /\ promises[1].result = ConnectionFailureFrom("NetworkError")
  /\ loginPromise = 2

\* ---- termination
\* every operation that is suspended returns in the end
EveryOperationReturns == (tasks # <<>>) ~> (tasks = <<>>)

\* every login that has been created gets resolved
EveryLoginResolves ==
  \A p \in 1..MaxWork :
    (p \in PromiseIds) ~> (p \in PromiseIds /\ promises[p].stage = "resolved")

\* the bound never cuts a running call short: what is left of MaxWork covers
\* the logins the running calls may still create
RoomKept == Work + Reserved <= MaxWork

\* call c, with its retry unspent, resumes from `await this.maybeLogin()` in
\* this step with a failed login, under the settings version it started with
FailedLoginStep(c) ==
  /\ c \in TaskIds
  /\ tasks[c].type = "call"
  /\ tasks[c].pc = "awaitLogin"
  /\ tasks[c].shouldRetry
  /\ Stepped(c)
  /\ settingsVersion = tasks[c].versionAtInit
  /\ tasks[c].awaited # NoPromise
  /\ promises[tasks[c].awaited].result.kind # "success"

\* the call drops the failed login and sends a new login request
SendsNewLogin(c) ==
  /\ After(c).pc = "awaitLogin"
  /\ Len(promises') = Len(promises) + 1
  /\ loginPromise' = Len(promises')
  /\ After(c).awaited = Len(promises')
  /\ promises'[tasks[c].awaited].dropped

\* the call returns the failed login's result and leaves the cache as it is
ReturnsCachedFailure(c) ==
  /\ After(c).pc = "done"
  /\ After(c).result = [promises[tasks[c].awaited].result EXCEPT !.apiGroup = TASK_API_NAME]
  /\ UNCHANGED <<loginPromise, promises>>

TagOf(e) ==
  IF e = "BadResponseError400" THEN "probable-wrong-protocol"
  ELSE IF e = "NetworkError" THEN "probable-wrong-url-or-no-connection-or-cert-error"
  ELSE IF e = "TimeoutError" THEN "timeout"
  ELSE "unknown"

\* a connection failure that carries the tag of e and e itself, and nothing else
Classified(result, e) ==
  /\ result = Result("connfail", 0, 0, "", TagOf(e), e)
  /\ result.type # "missing-config"

\* the catch handler of the call proxy returns the classification of the error
\* the endpoint function threw
ProxyClassifies ==
  [][\A c \in 1..MaxWork, e \in ErrorKinds :
       CallAfterFn(c, RespThrow(e)) => Classified(lastReturn'.result, e)]_vars

\* so does the catch handler of the proxy without authentication
ProxyWithoutAuthClassifies ==
  [][\A i \in 1..MaxWork, e \in ErrorKinds :
       InfoQueryRespond(i, RespThrow(e)) => Classified(lastReturn'.result, e)]_vars

\* and the catch handler of the login chain resolves the login to it
LoginClassifies ==
  [][\A p \in 1..MaxWork, e \in ErrorKinds :
       LoginRespondV2(p, RespThrow(e)) =>
         /\ Classified(promises'[p].result, e)
         /\ promises'[p].stage = "resolved"]_vars

\* a step that catches a thrown error leaves the settings, the settings
\* version and the cached login alone, and starts no login
CatchChangesNoClientState ==
  [][\A x \in 1..MaxWork, e \in ErrorKinds :
       (\/ CallAfterFn(x, RespThrow(e))
        \/ InfoQueryRespond(x, RespThrow(e))
        \/ LoginRespondV2(x, RespThrow(e)))
       => /\ UNCHANGED <<settings, settingsVersion, loginPromise>>
          /\ Len(promises') = Len(promises)]_vars

\* C21: ConnectionFailure.from gives every caught error exactly one tag and
\* attaches the error: BadResponseError with status 400 is
\* probable-wrong-protocol, NetworkError is
\* probable-wrong-url-or-no-connection-or-cert-error, TimeoutError is timeout,
\* everything else (a BadResponseError with another status too) is unknown;
\* the tag is never missing-config and no client state changes.
C21_ErrorClassified ==
  /\ ProxyClassifies
  /\ ProxyWithoutAuthClassifies
  /\ LoginClassifies
  /\ CatchChangesNoClientState

\* a call has returned a BadResponseError with a status other than 400 as
\* unknown, after a login that was resolved to a timeout had been discarded
C21_Witness ==
  /\ lastReturn.type = "call"
  /\ lastReturn.result = Result("connfail", 0, 0, "", "unknown", "BadResponseErrorOther")
  /\ \E p \in 1..Len(promises) :
       promises[p].result = Result("connfail", 0, 0, "", "timeout", "TimeoutError")

\* ---------------------------------------------------------------- C22
\* a logout request in flight goes to the base URL, and names the session, of
\* the settings its sid was obtained under
LogoutRequestMatchesLogin ==
  \A i \in Logouts :
    tasks[i].pc = "awaitLogout" =>
      /\ tasks[i].sid = LoginResultOf(tasks[i].awaited).sid
      /\ tasks[i].settings.baseUrl = promises[tasks[i].awaited].settings.baseUrl
      /\ tasks[i].settings.session = promises[tasks[i].awaited].settings.session

\* an effective updateSettings that found a login cached does not give the
\* logout up because the settings it stored are incomplete
UpdateLogsOutUnderIncompleteSettings ==
  (/\ lastReturn.type = "update"
   /\ lastReturn.ret
   /\ lastReturn.awaited # NoPromise)
  => lastReturn.result # MissingConfig

\* C22: every logout request carries a sid with the base URL and the session
\* name of the settings that sid was obtained under; the logout started by an
\* effective updateSettings never sends the old sid to the new base URL, and
\* logs the old session out even when the new settings are incomplete.
C22_LogoutUnderLoginSettings ==
  /\ LogoutRequestMatchesLogin
  /\ UpdateLogsOutUnderIncompleteSettings

\* ---------------------------------------------------------------- C23
\* call c takes the invalidate-and-retry step
RetryStep(c) ==
  /\ c \in TaskIds
  /\ tasks[c].type = "call"
  /\ Stepped(c)
  /\ After(c).retries = tasks[c].retries + 1

\* the cached login is not the one call c awaited and saw fail, or used for
\* the endpoint invocation that failed: another call's retry has replaced it
NewerLoginCached(c) == loginPromise # NoPromise /\ loginPromise # tasks[c].awaited

\* C23: of calls that share one cached login and each take the
\* invalidate-and-retry step, a retrying call discards only the login it saw
\* fail: a newer login that another call's retry has started stays cached,
\* the call joins it, and no further login request is sent.
C23_RetryKeepsNewerLogin ==
  [][\A c \in 1..MaxWork :
       (RetryStep(c) /\ NewerLoginCached(c)) =>
         /\ ~promises'[loginPromise].dropped
         /\ loginPromise' = loginPromise
         /\ After(c).awaited = loginPromise
         /\ Len(promises') = Len(promises)]_vars

\* ---------------------------------------------------------------- C24
\* task t matches at least one enabled filter
MatchesEnabledFilter(t) == \E f \in FilterNames : props.taskFilter[f] /\ matchesFilter(t, f)

\* how often task t occurs in list
Occurrences(list, t) == Cardinality({i \in 1..Len(list) : list[i] = t})

\* C24: when tasks have been fetched and at least one task matches an enabled
\* filter, the popup body lists exactly the tasks that match at least one
\* enabled filter, ordered by title; a task that matches no enabled filter is
\* never listed.
C24_ListsMatchingTasks ==
  (/\ body # NotRendered
   /\ props.tasksLastCompletedFetchTimestamp # NoTimestamp
   /\ \E i \in 1..Len(props.tasks) : MatchesEnabledFilter(props.tasks[i]))
  => /\ body.className = "download-tasks"
     /\ \A t \in TaskSpace :
          Occurrences(body.list, t) =
            IF MatchesEnabledFilter(t) THEN Occurrences(props.tasks, t) ELSE 0
     /\ \A i, j \in 1..Len(body.list) : i < j => body.list[i].title <= body.list[j].title

====
